---- MODULE Spec2Model ----
(***************************************************************************)
(* mingle (src/main.go): the session catalog built by getSessions from the *)
(* live tmux sessions, the config file, the git worktrees of configured    *)
(* roots and the zoxide index, and the `list` and `connect` commands.      *)
(*                                                                         *)
(* A string is a sequence of one-character strings, so that                *)
(* strings.ReplaceAll and strings.TrimSpace are computed character by      *)
(* character.  "" is the empty sequence.                                   *)
(***************************************************************************)
EXTENDS Naturals, Sequences, FiniteSets

VARIABLES
    pc,                     \* position of the command's handler
    command,                \* "list" or "connect" (the cobra subcommand run)
    hasArg,                 \* connect: len(args) > 0
    tmuxLive,               \* the sessions the tmux server holds (shared with other processes)
    liveThroughout,         \* history: names live at every point of the run so far
    envSteps,               \* number of changes other processes made to tmuxLive
    configFile,             \* what loadConfig found: "unread", "absent", "bad", "ok"
    config,                 \* loadConfig's result ([]ConfigSession)
    worktrees,              \* root path -> getGitWorktrees(root), for the roots queried
    tmuxSessions,           \* getSessions' local
    zoxideSessions,         \* getSessions' local
    configSessions,         \* getSessions' local
    configWorktreeSessions, \* getSessions' local
    queried,                \* getSessions: the listing commands run, in order
    failed,                 \* getSessions: the listing commands that returned an error
    sessions,               \* the catalog getSessions returned
    sessionName,            \* connect: args[0]
    selectedSession,        \* connect: *selectedSession
    sessionExists,          \* connect: result of the fresh existence query
    insideTmux,             \* connect: isInsideTmuxSession()
    TMUX,                   \* connect: what os.Getenv("TMUX") returned; NotRead before
    created,                \* connect: "none", "ok", "nopath", "failed" (createTmuxSession)
    cmds,                   \* the external mutating commands issued, in order
    stdout,                 \* the lines printed to standard output
    result                  \* "running", "exit0", "exit1", "replaced"

vars == <<pc, command, hasArg, tmuxLive, liveThroughout, envSteps, configFile, config,
          worktrees, tmuxSessions, zoxideSessions, configSessions,
          configWorktreeSessions, queried, failed, sessions, sessionName,
          selectedSession, sessionExists, insideTmux, TMUX, created, cmds, stdout, result>>

----------------------------------------------------------------------------
(* Bounds of the model *)

MaxTmux == 2        \* live tmux sessions at the start of a run
MaxConfig == 2      \* entries of the config file
MaxWorktrees == 3   \* worktrees git lists for a root
MaxZoxide == 2      \* directories zoxide lists
MaxEnvSteps == 1    \* sessions created or killed by other processes during a run

----------------------------------------------------------------------------
(* Strings *)

EmptyStr == <<>>
NameADotB == <<"a", ".", "b">>
NameA_B == <<"a", "_", "b">>
NameC == <<"c">>
NameD == <<"d", ".", "e", ".", "f">>
NameD_E_F == <<"d", "_", "e", "_", "f">>
NameR == <<"r">>
NameMissing == <<"z">>

\* tmux does not allow '.' in a session name, so a live session has none.
TmuxNames == {NameA_B, NameC}
FlatPaths == {NameADotB}
RootPaths == {NameR}
WorktreePaths == {NameADotB, NameC, NameD}
ZoxidePaths == {NameADotB, NameD}
Profiles == {"", "dev"}
Targets == {NameA_B, NameADotB, NameC, NameD_E_F, NameMissing}

WorktreeRoot == "worktreeroot"
NoType == "nil"

\* Sequences over S of length at most n.
SeqsUpTo(S, n) == UNION {[1..k -> S] : k \in 0..n}

\* Sequences over S of length at most n in which nothing occurs twice.
DistinctSeqs(S, n) ==
    {s \in SeqsUpTo(S, n) : \A i, j \in 1..Len(s) : i # j => s[i] # s[j]}

RECURSIVE Flatten(_)
Flatten(ss) == IF ss = <<>> THEN <<>> ELSE Head(ss) \o Flatten(Tail(ss))

\* strings.ReplaceAll(s, ".", "_")
ReplaceAll(s) == [i \in 1..Len(s) |-> IF s[i] = "." THEN "_" ELSE s[i]]

\* strings.TrimSpace(s)
RECURSIVE TrimLeft(_)
TrimLeft(s) == IF s # <<>> /\ Head(s) = " " THEN TrimLeft(Tail(s)) ELSE s
RECURSIVE TrimRight(_)
TrimRight(s) ==
    IF s # <<>> /\ s[Len(s)] = " " THEN TrimRight(SubSeq(s, 1, Len(s) - 1)) ELSE s
TrimSpace(s) == TrimRight(TrimLeft(s))

----------------------------------------------------------------------------
(* The external listing tools.  The output of a command is what            *)
(* strings.Split(string(output), "\n") yields: its lines, the last one     *)
(* empty because the output ends in a newline.  err is cmd.Output()'s      *)
(* error.                                                                  *)

ToolError == [err |-> TRUE, lines |-> <<>>]
ToolLines(ls) == [err |-> FALSE, lines |-> ls]

\* tmux list-sessions -F "#{session_name}": one line per live session, in the
\* order given; with no session there is no server and the command fails.
TmuxListSessions(order) ==
    IF order = <<>> THEN ToolError ELSE ToolLines(order \o <<EmptyStr>>)

\* zoxide query -l: one line per directory.
ZoxideQuery(paths) == ToolLines(paths \o <<EmptyStr>>)

\* git -C root worktree list --porcelain: per worktree a "worktree <path>"
\* line, a "HEAD <sha>" line, a "branch <ref>" line and an empty line.  The
\* key and the blank after it are one element of the line.
GitWorktreeList(paths) ==
    ToolLines(Flatten([i \in 1..Len(paths) |->
                  << <<"worktree ">> \o paths[i], <<"HEAD ", "h">>,
                     <<"branch ", "m">>, EmptyStr >>]))

\* The orders in which a set of names can be listed.
Orders(S) == {s \in [1..Cardinality(S) -> S] : \A i, j \in DOMAIN s : i # j => s[i] # s[j]}

----------------------------------------------------------------------------
(* Session and ConfigSession *)

Session(name, path, type, tmuxinator) ==
    [Name |-> name, Path |-> path, Type |-> type, Tmuxinator |-> tmuxinator]

NoSession == Session(EmptyStr, EmptyStr, "", "")

ConfigSession(type, path, tmuxinator) ==
    [Type |-> type, Path |-> path, Tmuxinator |-> tmuxinator]

\* The entries a config file may hold (paths already home-expanded).
ConfigEntries ==
    {ConfigSession(NoType, p, t) : p \in FlatPaths, t \in Profiles}
    \cup {ConfigSession(WorktreeRoot, p, t) : p \in RootPaths, t \in Profiles}

IsWorktreeRoot(c) == c.Type # NoType /\ c.Type = WorktreeRoot

----------------------------------------------------------------------------
(* Source adapters *)

RECURSIVE NonBlankTrimmed(_)
NonBlankTrimmed(lines) ==
    IF lines = <<>> THEN <<>>
    ELSE LET trimmed == TrimSpace(Head(lines))
         IN  (IF trimmed # EmptyStr THEN <<trimmed>> ELSE <<>>)
             \o NonBlankTrimmed(Tail(lines))

getTmuxSessions(out) ==
    IF out.err THEN <<>>
    ELSE LET names == NonBlankTrimmed(out.lines)
         IN  [i \in 1..Len(names) |-> Session(names[i], EmptyStr, "", "")]

getZoxideResults(out) ==
    IF out.err THEN <<>>
    ELSE LET names == NonBlankTrimmed(out.lines)
         IN  [i \in 1..Len(names) |-> Session(names[i], names[i], "", "")]

HasWorktreePrefix(line) == line # <<>> /\ Head(line) = "worktree "

RECURSIVE WorktreeLines(_)
WorktreeLines(lines) ==
    IF lines = <<>> THEN <<>>
    ELSE (IF HasWorktreePrefix(Head(lines))
          THEN <<TrimSpace(Tail(Head(lines)))>> ELSE <<>>)
         \o WorktreeLines(Tail(lines))

getGitWorktrees(out) == IF out.err THEN <<>> ELSE WorktreeLines(out.lines)

----------------------------------------------------------------------------
(* The aggregator: getSessions *)

FlatSession(c) == Session(c.Path, c.Path, "", c.Tmuxinator)

\* The worktree session without the entry's tmuxinator profile.
WorktreeSessionNoProfile(c, w) == Session(w, w, c.Type, "")

WorktreeSession(c, w) == Session(w, w, c.Type, c.Tmuxinator)

\* The loop over the config entries; git[root] is the output of the worktree
\* listing for root.  acc holds configSessions and configWorktreeSessions.
RECURSIVE ConfigLoop(_, _, _)
ConfigLoop(cfg, git, acc) ==
    IF cfg = <<>> THEN acc
    ELSE LET c == Head(cfg)
         IN  ConfigLoop(Tail(cfg), git,
                 IF IsWorktreeRoot(c)
                 THEN LET ws == getGitWorktrees(git[c.Path])
                      IN  [acc EXCEPT !.configWorktreeSessions =
                               @ \o [i \in 1..Len(ws) |-> WorktreeSession(c, ws[i])]]
                 ELSE [acc EXCEPT !.configSessions = Append(@, FlatSession(c))])

ConfigGroups(cfg, git) ==
    ConfigLoop(cfg, git, [configSessions |-> <<>>, configWorktreeSessions |-> <<>>])

\* addSession looking the raw name up in sessionNames instead of the normalized one.
addSessionRawLookup(st, s) ==
    LET name == ReplaceAll(s.Name)
    IN  IF s.Name \notin st.sessionNames
        THEN [sessions |-> Append(st.sessions, [s EXCEPT !.Name = name]),
              sessionNames |-> st.sessionNames \cup {name}]
        ELSE st

\* The closure addSession; st holds sessions and sessionNames.
addSession(st, s) ==
    LET name == ReplaceAll(s.Name)
    IN  IF name \notin st.sessionNames
        THEN [sessions |-> Append(st.sessions, [s EXCEPT !.Name = name]),
              sessionNames |-> st.sessionNames \cup {name}]
        ELSE st

RECURSIVE AddAll(_, _)
AddAll(st, group) ==
    IF group = <<>> THEN st ELSE AddAll(addSession(st, Head(group)), Tail(group))

\* The loops with the config sessions added before the tmux sessions.
MergeGroupsConfigFirst(tmuxG, configG, worktreeG, zoxideG) ==
    AddAll(AddAll(AddAll(AddAll([sessions |-> <<>>, sessionNames |-> {}],
                                configG), worktreeG), tmuxG), zoxideG).sessions

\* The loops with the zoxide sessions added before the worktree sessions.
MergeGroupsZoxideEarly(tmuxG, configG, worktreeG, zoxideG) ==
    AddAll(AddAll(AddAll(AddAll([sessions |-> <<>>, sessionNames |-> {}],
                                tmuxG), configG), zoxideG), worktreeG).sessions

\* The four loops over the groups, in the order of the code.
MergeGroups(tmuxG, configG, worktreeG, zoxideG) ==
    AddAll(AddAll(AddAll(AddAll([sessions |-> <<>>, sessionNames |-> {}],
                                tmuxG), configG), worktreeG), zoxideG).sessions

\* The roots the config loop runs the worktree listing for, in order.
RECURSIVE RootsQueried(_)
RootsQueried(cfg) ==
    IF cfg = <<>> THEN <<>>
    ELSE (IF IsWorktreeRoot(Head(cfg)) THEN <<Head(cfg).Path>> ELSE <<>>)
         \o RootsQueried(Tail(cfg))

Range(f) == {f[i] : i \in DOMAIN f}

TmuxTool == <<"tmux">>
ZoxideTool == <<"zoxide">>
GitTool(root) == <<"git">> \o root
FailedIf(tool, out) == IF out.err THEN {tool} ELSE {}

----------------------------------------------------------------------------
(* Inputs *)

\* What loadConfig may find at the config path.
ConfigFiles ==
    {[state |-> "absent", entries |-> <<>>], [state |-> "bad", entries |-> <<>>]}
    \cup {[state |-> "ok", entries |-> es] : es \in SeqsUpTo(ConfigEntries, MaxConfig)}

ZoxideOutputs ==
    {ToolError} \cup {ZoxideQuery(ps) : ps \in DistinctSeqs(ZoxidePaths, MaxZoxide)}

GitOutputs ==
    {ToolError}
    \cup {GitWorktreeList(ps) : ps \in DistinctSeqs(WorktreePaths, MaxWorktrees)}

\* The listing of every root; only the roots of the config are ever listed.
GitOutputsFor(cfg) ==
    IF \E i \in DOMAIN cfg : IsWorktreeRoot(cfg[i])
    THEN [RootPaths -> GitOutputs]
    ELSE {[r \in RootPaths |-> ToolError]}

----------------------------------------------------------------------------
(* loadConfig and the error of getSessions *)

NoConfigNotice == <<"No config file was found">>
ErrorLine(msg) == <<msg>>

\* loadConfig: the entries, the error, and what it prints.  The paths of the
\* entries are taken as already home-expanded.
loadConfig(file) ==
    [err |-> file.state = "bad",
     config |-> IF file.state = "ok" THEN file.entries ELSE <<>>,
     printed |-> IF file.state = "absent" THEN <<NoConfigNotice>> ELSE <<>>]

\* getSessions returning an error when a listing command fails.
getSessionsErrorOnToolError(configErr, tmuxOut, zoxideOut, gitOuts) ==
    \/ configErr
    \/ tmuxOut.err
    \/ zoxideOut.err
    \/ \E i \in DOMAIN gitOuts : gitOuts[i].err

\* getSessions returns an error only when loadConfig does; the listing
\* commands' errors are turned into empty lists by the adapters.
getSessionsError(configErr, tmuxOut, zoxideOut, gitOuts) == configErr

\* list printing the path of each session.
listSessionsOutputPaths(ss) == [i \in 1..Len(ss) |-> ss[i].Path]

\* What list prints for the catalog ss.
listSessionsOutput(ss) == [i \in 1..Len(ss) |-> ss[i].Name]

----------------------------------------------------------------------------
(* Commands issued by connect *)

Cmd(cmd, name, path, profile) ==
    [cmd |-> cmd, name |-> name, path |-> path, profile |-> profile, ok |-> TRUE]

NewSessionCmd(s) == Cmd("new-session", s.Name, s.Path, "")
TmuxinatorCmd(s) == Cmd("tmuxinator start", s.Name, s.Path, s.Tmuxinator)
SwitchClientCmd(name) == Cmd("switch-client", name, EmptyStr, "")
AttachSessionCmd(name) == Cmd("attach-session", name, EmptyStr, "")

CreationCmds == {"new-session", "tmuxinator start"}
AttachCmds == {"switch-client", "attach-session"}

\* The command with its exit status.
Exited(c, ok) == [c EXCEPT !.ok = ok]

\* createTmuxSession without the check of the path.
createTmuxSessionNoPathCheck(s) ==
    IF s.Tmuxinator # "" THEN <<TmuxinatorCmd(s)>> ELSE <<NewSessionCmd(s)>>

\* createTmuxSession: the command it runs, none when the path is missing.
createTmuxSession(s) ==
    IF s.Path = EmptyStr THEN <<>>
    ELSE IF s.Tmuxinator # "" THEN <<TmuxinatorCmd(s)>>
    ELSE <<NewSessionCmd(s)>>

\* createTmuxSession dropping the error of the command it runs.
createErrorIgnoresExit(creation, ok) == IF creation = <<>> THEN "nopath" ELSE ""

\* createTmuxSession: the error it returns ("" is nil), given the command it
\* runs and the command's exit status.
createError(creation, ok) ==
    IF creation = <<>> THEN "nopath"
    ELSE IF ~ok THEN "failed"
    ELSE ""

CreateErrorLine(err) ==
    IF err = "nopath" THEN ErrorLine("session path is missing, cannot create session")
    ELSE ErrorLine("error creating session")

\* The selection loop comparing with the normalized argument.
RECURSIVE FindSessionNormalized(_, _)
FindSessionNormalized(ss, name) ==
    IF ss = <<>> THEN <<>>
    ELSE IF Head(ss).Name = ReplaceAll(name) THEN <<Head(ss)>>
    ELSE FindSessionNormalized(Tail(ss), name)

\* The loop of connect that selects the first session named name.
RECURSIVE FindSession(_, _)
FindSession(ss, name) ==
    IF ss = <<>> THEN <<>>
    ELSE IF Head(ss).Name = name THEN <<Head(ss)>>
    ELSE FindSession(Tail(ss), name)

\* The existence loop comparing the path of a listed session with the name.
SessionExistsInByPath(ss, name) == \E i \in DOMAIN ss : ss[i].Path = name

\* The loop of connect over the freshly listed tmux sessions.
SessionExistsIn(ss, name) == \E i \in DOMAIN ss : ss[i].Name = name

\* The values of the environment variable TMUX.
TmuxEnvValues == {"", "/tmp/tmux-1000/default,1,0"}

\* isInsideTmuxSession with the test of the variable inverted.
isInsideTmuxSessionInverted(tmuxEnv) == tmuxEnv = ""

isInsideTmuxSession(tmuxEnv) == tmuxEnv # ""

\* The environment variable was not read yet.
NotRead == "not read"

\* The names other processes may create sessions under.
EnvNames == {NameA_B, NameC, NameD_E_F}

----------------------------------------------------------------------------
(* Initial state *)

Init ==
    /\ pc = "start"
    /\ command \in {"list", "connect"}
    /\ hasArg \in IF command = "connect" THEN BOOLEAN ELSE {FALSE}
    /\ tmuxLive \in {L \in SUBSET TmuxNames : Cardinality(L) <= MaxTmux}
    /\ liveThroughout = tmuxLive
    /\ envSteps = 0
    /\ configFile = "unread"
    /\ config = <<>>
    /\ worktrees = <<>>
    /\ tmuxSessions = <<>>
    /\ zoxideSessions = <<>>
    /\ configSessions = <<>>
    /\ configWorktreeSessions = <<>>
    /\ queried = <<>>
    /\ failed = {}
    /\ sessions = <<>>
    /\ sessionName = EmptyStr
    /\ selectedSession = NoSession
    /\ sessionExists = FALSE
    /\ insideTmux = FALSE
    /\ TMUX = NotRead
    /\ created = "none"
    /\ cmds = <<>>
    /\ stdout = <<>>
    /\ result = "running"

connectVars == <<sessionName, selectedSession, sessionExists, insideTmux, TMUX, created, cmds>>
getSessionsVars == <<configFile, config, worktrees, tmuxSessions, zoxideSessions,
                     configSessions, configWorktreeSessions, sessions>>
fixedVars == <<command, hasArg>>
envVars == <<tmuxLive, liveThroughout, envSteps>>

----------------------------------------------------------------------------
(* getSessions, called first by both commands.  When it returns an error   *)
(* the command returns it, and main prints it and exits 1.                 *)

GetSessions(file, tmuxOut, zoxideOut, git) ==
    LET loaded == loadConfig(file)
        groups == ConfigGroups(loaded.config, git)
        roots == RootsQueried(loaded.config)
        tmuxG == getTmuxSessions(tmuxOut)
        zoxideG == getZoxideResults(zoxideOut)
        gitOuts == [i \in 1..Len(roots) |-> git[roots[i]]]
    IN  /\ configFile' = file.state
        /\ IF loaded.err
           THEN /\ queried' = <<>>
                /\ failed' = {}
           ELSE /\ queried' = <<TmuxTool, ZoxideTool>>
                                  \o [i \in 1..Len(roots) |-> GitTool(roots[i])]
                /\ failed' = FailedIf(TmuxTool, tmuxOut)
                             \cup FailedIf(ZoxideTool, zoxideOut)
                             \cup UNION {FailedIf(GitTool(r), git[r]) : r \in Range(roots)}
        /\ IF getSessionsError(loaded.err, tmuxOut, zoxideOut, gitOuts)
           THEN /\ stdout' = stdout \o loaded.printed
                                 \o <<ErrorLine("getSessions failed")>>
                /\ result' = "exit1"
                /\ pc' = "done"
                /\ UNCHANGED <<config, worktrees, tmuxSessions, zoxideSessions,
                               configSessions, configWorktreeSessions, sessions>>
           ELSE /\ config' = loaded.config
                /\ stdout' = stdout \o loaded.printed
                /\ tmuxSessions' = tmuxG
                /\ zoxideSessions' = zoxideG
                /\ worktrees' = [r \in Range(roots) |-> getGitWorktrees(git[r])]
                /\ configSessions' = groups.configSessions
                /\ configWorktreeSessions' = groups.configWorktreeSessions
                /\ sessions' = MergeGroups(tmuxG, groups.configSessions,
                                           groups.configWorktreeSessions, zoxideG)
                /\ pc' = "gotSessions"
                /\ UNCHANGED result
        /\ UNCHANGED <<fixedVars, envVars, connectVars>>

GetSessionsStep ==
    /\ pc = "start"
    /\ command = "list" \/ hasArg
    /\ \E file \in ConfigFiles, order \in Orders(tmuxLive), zoxideOut \in ZoxideOutputs :
         \E git \in GitOutputsFor(file.entries) :
            GetSessions(file, TmuxListSessions(order), zoxideOut, git)

----------------------------------------------------------------------------
(* list *)

ListSessions ==
    /\ pc = "gotSessions"
    /\ command = "list"
    /\ stdout' = stdout \o listSessionsOutput(sessions)
    /\ result' = "exit0"
    /\ pc' = "done"
    /\ UNCHANGED <<getSessionsVars, queried, failed, fixedVars, envVars, connectVars>>

----------------------------------------------------------------------------
(* connect *)

\* connect without an argument returns at once.
ConnectNoArgs ==
    /\ pc = "start"
    /\ command = "connect"
    /\ ~hasArg
    /\ result' = "exit0"
    /\ pc' = "done"
    /\ UNCHANGED <<getSessionsVars, queried, failed, stdout, fixedVars, envVars,
                   connectVars>>

\* The selection of the session named args[0].  The locals of getSessions,
\* and the record of the listing commands it ran, are gone once it has
\* returned; its catalog stays.
Resolve(name) ==
    LET found == FindSession(sessions, name)
    IN  /\ sessionName' = name
        /\ tmuxSessions' = <<>>
        /\ zoxideSessions' = <<>>
        /\ configSessions' = <<>>
        /\ configWorktreeSessions' = <<>>
        /\ worktrees' = <<>>
        /\ config' = <<>>
        /\ configFile' = "unread"
        /\ queried' = <<>>
        /\ failed' = {}
        /\ IF found = <<>>
           THEN /\ stdout' = Append(stdout, ErrorLine("session not found"))
                /\ result' = "exit1"
                /\ pc' = "done"
                /\ UNCHANGED selectedSession
           ELSE /\ selectedSession' = found[1]
                /\ pc' = "resolved"
                /\ UNCHANGED <<stdout, result>>
        /\ UNCHANGED <<sessions, fixedVars, envVars, sessionExists, insideTmux, TMUX,
                       created, cmds>>

ResolveStep ==
    /\ pc = "gotSessions"
    /\ command = "connect"
    /\ \E name \in Targets : Resolve(name)

\* The fresh query of the live sessions.
ExistenceCheck(tmuxOut) ==
    /\ sessionExists' = SessionExistsIn(getTmuxSessions(tmuxOut), selectedSession.Name)
    /\ pc' = "checked"
    /\ UNCHANGED <<getSessionsVars, queried, failed, stdout, result, fixedVars, envVars,
                   sessionName, selectedSession, insideTmux, TMUX, created, cmds>>

ExistenceCheckStep ==
    /\ pc = "resolved"
    /\ \E order \in Orders(tmuxLive) : ExistenceCheck(TmuxListSessions(order))

\* Both branches of isInsideTmuxSession() create the session when the fresh
\* query did not find it.  ok is the exit status of the creation command, when
\* one is run; tmux new-session fails for a name that is live.
Ensure(tmuxEnv, ok) ==
    LET creation == IF sessionExists THEN <<>> ELSE createTmuxSession(selectedSession)
        err == IF sessionExists THEN "" ELSE createError(creation, ok)
    IN  /\ creation = <<>> => ok
        /\ (creation # <<>> /\ creation[1].cmd = "new-session" /\ ok)
               => selectedSession.Name \notin tmuxLive
        /\ TMUX' = tmuxEnv
        /\ insideTmux' = isInsideTmuxSession(tmuxEnv)
        /\ cmds' = cmds \o [i \in 1..Len(creation) |-> Exited(creation[i], ok)]
        /\ tmuxLive' = IF creation # <<>> /\ ok
                       THEN tmuxLive \cup {selectedSession.Name} ELSE tmuxLive
        /\ created' = IF sessionExists THEN "none" ELSE IF err = "" THEN "ok" ELSE err
        /\ IF err = ""
           THEN /\ pc' = "ensured"
                /\ UNCHANGED <<stdout, result>>
           ELSE /\ stdout' = Append(stdout, CreateErrorLine(err))
                /\ result' = "exit1"
                /\ pc' = "done"
        /\ UNCHANGED <<getSessionsVars, queried, failed, fixedVars, liveThroughout,
                       envSteps, sessionName, selectedSession, sessionExists>>

EnsureStep ==
    /\ pc = "checked"
    /\ \E tmuxEnv \in TmuxEnvValues, ok \in BOOLEAN : Ensure(tmuxEnv, ok)

\* tmux switch-client -t selectedSession.Name; ok is its exit status.
SwitchClient(ok) ==
    /\ pc = "ensured"
    /\ insideTmux
    /\ cmds' = Append(cmds, Exited(SwitchClientCmd(selectedSession.Name), ok))
    /\ IF ok
       THEN /\ result' = "exit0"
            /\ UNCHANGED stdout
       ELSE /\ result' = "exit1"
            /\ stdout' = Append(stdout, ErrorLine("error switching to tmux session"))
    /\ pc' = "done"
    /\ UNCHANGED <<getSessionsVars, queried, failed, fixedVars, envVars, sessionName,
                   selectedSession, sessionExists, insideTmux, TMUX, created>>

SwitchClientStep == \E ok \in BOOLEAN : SwitchClient(ok)

\* syscall.Exec of tmux attach-session -t sessionName: the process is replaced,
\* or Exec fails and the program exits 1.  tmux was found by the commands run
\* before, so exec.LookPath finds it.
AttachSession(ok) ==
    /\ pc = "ensured"
    /\ ~insideTmux
    /\ cmds' = Append(cmds, Exited(AttachSessionCmd(sessionName), ok))
    /\ result' = IF ok THEN "replaced" ELSE "exit1"
    /\ pc' = "done"
    /\ UNCHANGED <<getSessionsVars, queried, failed, stdout, fixedVars, envVars,
                   sessionName, selectedSession, sessionExists, insideTmux, TMUX, created>>

AttachSessionStep == \E ok \in BOOLEAN : AttachSession(ok)

----------------------------------------------------------------------------
(* Other processes (another run of the tool, the user) on the tmux server, *)
(* between the steps of connect that read or change it.                    *)

EnvRacePoint == pc \in {"resolved", "checked", "ensured"}

EnvNewSession ==
    /\ EnvRacePoint
    /\ envSteps < MaxEnvSteps
    /\ \E n \in EnvNames \ tmuxLive : tmuxLive' = tmuxLive \cup {n}
    /\ liveThroughout' = liveThroughout
    /\ envSteps' = envSteps + 1
    /\ UNCHANGED <<pc, getSessionsVars, queried, failed, stdout, result, fixedVars,
                   connectVars>>

EnvKillSession ==
    /\ EnvRacePoint
    /\ envSteps < MaxEnvSteps
    /\ \E n \in tmuxLive : tmuxLive' = tmuxLive \ {n}
    /\ liveThroughout' = liveThroughout \cap tmuxLive'
    /\ envSteps' = envSteps + 1
    /\ UNCHANGED <<pc, getSessionsVars, queried, failed, stdout, result, fixedVars,
                   connectVars>>

----------------------------------------------------------------------------

Next ==
    \/ GetSessionsStep
    \/ ListSessions
    \/ ConnectNoArgs
    \/ ResolveStep
    \/ ExistenceCheckStep
    \/ EnsureStep
    \/ SwitchClientStep
    \/ AttachSessionStep
    \/ EnvNewSession
    \/ EnvKillSession

Spec == Init /\ [][Next]_vars

----------------------------------------------------------------------------
(* The catalog as the specification describes it *)

RECURSIVE DotsToUnderscores(_)
DotsToUnderscores(name) ==
    IF name = <<>> THEN <<>>
    ELSE <<IF Head(name) = "." THEN "_" ELSE Head(name)>> \o DotsToUnderscores(Tail(name))

\* The four groups of getSessions, concatenated in precedence order.
Concatenated == tmuxSessions \o configSessions \o configWorktreeSessions \o zoxideSessions

WithNormalizedNames(ss) ==
    [i \in 1..Len(ss) |-> [ss[i] EXCEPT !.Name = DotsToUnderscores(@)]]

\* The elements of ss whose name no earlier element has, in the order of ss.
RECURSIVE FirstOccurrences(_, _)
FirstOccurrences(ss, n) ==
    IF n = 0 THEN <<>>
    ELSE FirstOccurrences(ss, n - 1)
         \o (IF \E j \in 1..(n - 1) : ss[j].Name = ss[n].Name THEN <<>> ELSE <<ss[n]>>)

ExpectedCatalog ==
    LET all == WithNormalizedNames(Concatenated) IN FirstOccurrences(all, Len(all))

HasDot(name) == \E i \in DOMAIN name : name[i] = "."

\* getSessions has just returned a catalog, and its groups are still at hand.
CatalogBuilt == pc = "gotSessions"

\* C1: the catalog getSessions returns is the concatenation of the live tmux
\* sessions, the flat config sessions, the worktree sessions and the zoxide
\* sessions, in that order, with every '.' of a name replaced by '_' and only
\* the first occurrence of each normalized name kept.
C1_CatalogIsOrderedDedup == CatalogBuilt => sessions = ExpectedCatalog

\* C1 witness: all four groups contribute, a name had a dot, and a later
\* duplicate was dropped.
C1_Witness ==
    /\ CatalogBuilt
    /\ tmuxSessions # <<>> /\ configSessions # <<>>
    /\ configWorktreeSessions # <<>> /\ zoxideSessions # <<>>
    /\ \E i \in DOMAIN Concatenated : HasDot(Concatenated[i].Name)
    /\ Len(sessions) < Len(Concatenated)
    /\ Len(sessions) >= 3
    /\ sessions = ExpectedCatalog

\* The normalized names of the groups' elements, in precedence order.
NormalizedNames == [i \in 1..Len(Concatenated) |-> DotsToUnderscores(Concatenated[i].Name)]

\* Two elements of the groups whose names differ and normalize to the same name.
CollidingPairs ==
    LET all == Concatenated
        norm == NormalizedNames
    IN  {p \in (DOMAIN all) \X (DOMAIN all) :
            p[1] < p[2] /\ all[p[1]].Name # all[p[2]].Name /\ norm[p[1]] = norm[p[2]]}

\* The first element of the groups, in precedence order, that normalizes to name.
FirstNamed(name) ==
    LET norm == NormalizedNames
        k == CHOOSE k \in DOMAIN norm :
                 norm[k] = name /\ \A m \in 1..(k - 1) : norm[m] # name
    IN  Concatenated[k]

\* C2: no two entries of a catalog have the same name and no name holds a '.';
\* when two sources produce names that differ only in '.' against '_' (a.b and
\* a_b), the catalog holds a single entry of the normalized name, the one that
\* comes first in precedence order.
C2_UniqueDotFreeNames ==
    /\ \A i, j \in DOMAIN sessions : i # j => sessions[i].Name # sessions[j].Name
    /\ \A i \in DOMAIN sessions : ~HasDot(sessions[i].Name)
    /\ CatalogBuilt =>
          LET norm == NormalizedNames
          IN  \A p \in CollidingPairs :
                  LET named == {k \in DOMAIN sessions : sessions[k].Name = norm[p[1]]}
                  IN  /\ Cardinality(named) = 1
                      /\ \A k \in named :
                            sessions[k] = [FirstNamed(norm[p[1]]) EXCEPT !.Name = norm[p[1]]]

\* C2 witness: a live session a_b and a path a.b of another source meet, and the
\* catalog holds the live one alone.
C2_Witness ==
    /\ CatalogBuilt
    /\ \E p \in CollidingPairs :
          /\ Concatenated[p[1]].Name = NameA_B
          /\ Concatenated[p[2]].Name = NameADotB
          /\ Concatenated[p[1]].Path = EmptyStr
    /\ Cardinality({k \in DOMAIN sessions : sessions[k].Name = NameA_B}) = 1

\* The sessions getSessions makes of the config entries, flat and worktree.
ConfigDerived == configSessions \o configWorktreeSessions

\* A live tmux session and a config session that share a normalized name.
SharedWithConfig ==
    {<<t, c>> \in (DOMAIN tmuxSessions) \X (DOMAIN ConfigDerived) :
        DotsToUnderscores(tmuxSessions[t].Name) = DotsToUnderscores(ConfigDerived[c].Name)}

\* C3: when a live tmux session and a config session, flat or worktree, share a
\* normalized name, the catalog entry of that name is the tmux one, without path
\* and without tmuxinator profile, and no entry of the catalog has the config
\* session's path.
C3_TmuxWinsOverConfig ==
    CatalogBuilt =>
        \A p \in SharedWithConfig :
            LET name == DotsToUnderscores(tmuxSessions[p[1]].Name)
                named == {k \in DOMAIN sessions : sessions[k].Name = name}
            IN  /\ named # {}
                /\ \A k \in named : /\ sessions[k].Path = EmptyStr
                                     /\ sessions[k].Tmuxinator = ""
                                     /\ sessions[k].Type = ""
                /\ \A k \in DOMAIN sessions : sessions[k].Path # ConfigDerived[p[2]].Path

\* C3 witness: a config session with a profile shares its normalized name with a
\* live session, and a worktree session does so too.
C3_Witness ==
    /\ CatalogBuilt
    /\ \E p \in SharedWithConfig : /\ ConfigDerived[p[2]].Tmuxinator = "dev"
                                    /\ ConfigDerived[p[2]].Type = ""
                                    /\ HasDot(ConfigDerived[p[2]].Name)
    /\ \E p \in SharedWithConfig : ConfigDerived[p[2]].Type = WorktreeRoot
    /\ \A k \in DOMAIN sessions : sessions[k].Name \in {NameA_B, NameC} => sessions[k].Path = EmptyStr

\* The worktree paths of the worktree-root entries, in the order of the config:
\* <<i, p>> is the p-th path git lists for entry i.
RECURSIVE ListedFrom(_)
ListedFrom(i) ==
    IF i > Len(config) THEN <<>>
    ELSE (IF IsWorktreeRoot(config[i])
          THEN [p \in 1..Len(worktrees[config[i].Path]) |-> <<i, p>>]
          ELSE <<>>)
         \o ListedFrom(i + 1)

Listed == ListedFrom(1)
ListedPaths ==
    LET listed == Listed
    IN  [q \in 1..Len(listed) |-> worktrees[config[listed[q][1]].Path][listed[q][2]]]
NamesOf(ss) == {DotsToUnderscores(ss[k].Name) : k \in DOMAIN ss}

\* The listed paths whose normalized name is taken by a live session, by a flat
\* config session or by a path listed before them.
Shadowed ==
    LET paths == ListedPaths
        norm == [q \in 1..Len(paths) |-> DotsToUnderscores(paths[q])]
        taken == NamesOf(tmuxSessions) \cup NamesOf(configSessions)
    IN  {q \in DOMAIN paths : norm[q] \in taken \/ \E r \in 1..(q - 1) : norm[r] = norm[q]}

\* The catalog entries that carry what entry i gives its worktree sessions.
DerivedFrom(i) ==
    {k \in DOMAIN sessions :
        /\ sessions[k].Type = WorktreeRoot
        /\ sessions[k].Path \in Range(worktrees[config[i].Path])
        /\ sessions[k].Tmuxinator = config[i].Tmuxinator}

WorktreeEntries == {i \in DOMAIN config : IsWorktreeRoot(config[i])}

\* C7 as stated: for a worktree-root entry with k listed worktrees the catalog
\* holds exactly k sessions derived from it, each with name = path = a listed
\* path and the entry's profile.
C7_ExactlyKWorktreeSessions ==
    CatalogBuilt =>
        \A i \in WorktreeEntries :
            /\ Cardinality(DerivedFrom(i)) = Len(worktrees[config[i].Path])
            /\ \A k \in DerivedFrom(i) : sessions[k].Name = sessions[k].Path

\* C7 as amended: the catalog holds one session for each listed worktree path
\* whose normalized name is not taken by a live tmux session, a flat config
\* session or an earlier listed path: its path is the worktree path, its
\* name the path with '.' replaced by '_', and it carries the entry's type and
\* profile; the catalog holds no other worktree session, so exactly k of an
\* entry when none of its k names is taken.
C7_UnshadowedWorktreeSessions ==
    CatalogBuilt =>
        LET listed == Listed
            paths == ListedPaths
            shadowed == Shadowed
        IN  /\ \A q \in DOMAIN listed :
                  q \notin shadowed =>
                      Cardinality({k \in DOMAIN sessions :
                          sessions[k] = Session(DotsToUnderscores(paths[q]), paths[q],
                                                WorktreeRoot,
                                                config[listed[q][1]].Tmuxinator)}) = 1
            /\ Cardinality({k \in DOMAIN sessions : sessions[k].Type = WorktreeRoot})
                  = Len(listed) - Cardinality(shadowed)
            /\ \A i \in WorktreeEntries :
                  (\A q \in shadowed : listed[q][1] # i)
                      => Cardinality(DerivedFrom(i)) = Len(worktrees[config[i].Path])

\* C7 witness: an entry with a profile lists three worktrees, none of them
\* shadowed, and the catalog holds the three sessions.
C7_Witness ==
    /\ CatalogBuilt
    /\ \E i \in WorktreeEntries :
          /\ config[i].Tmuxinator = "dev"
          /\ Len(worktrees[config[i].Path]) = 3
          /\ \A q \in Shadowed : Listed[q][1] # i
          /\ Cardinality(DerivedFrom(i)) = 3
    /\ zoxideSessions # <<>>

WorktreeEntriesInOrder ==
    LET RECURSIVE from(_)
        from(i) == IF i > Len(config) THEN <<>>
                   ELSE (IF IsWorktreeRoot(config[i]) THEN <<i>> ELSE <<>>) \o from(i + 1)
    IN  from(1)

\* The listing commands getSessions has to run for the config it loaded.
ExpectedQueries ==
    <<TmuxTool, ZoxideTool>>
    \o [q \in 1..Len(WorktreeEntriesInOrder) |-> GitTool(config[WorktreeEntriesInOrder[q]].Path)]

\* C8: when a listing command fails, or lists nothing, getSessions and list
\* still succeed (the config file being absent or well-formed), the failed
\* source contributes no session, every source is still queried, and the
\* catalog is made of the sessions of the other sources.
C8_FailedSourceIsEmpty ==
    /\ (configFile \in {"absent", "ok"} /\ pc # "start") => result # "exit1"
    /\ (configFile \in {"absent", "ok"} /\ CatalogBuilt) =>
          /\ queried = ExpectedQueries
          /\ TmuxTool \in failed => tmuxSessions = <<>>
          /\ ZoxideTool \in failed => zoxideSessions = <<>>
          /\ \A i \in WorktreeEntries :
                GitTool(config[i].Path) \in failed => worktrees[config[i].Path] = <<>>
          /\ sessions = ExpectedCatalog
          /\ ZoxideTool \in failed =>
                sessions = FirstOccurrences(
                    WithNormalizedNames(tmuxSessions \o configSessions \o configWorktreeSessions),
                    Len(tmuxSessions) + Len(configSessions) + Len(configWorktreeSessions))
    /\ (configFile \in {"absent", "ok"} /\ command = "list" /\ pc = "done") =>
          /\ result = "exit0"
          /\ \A k \in DOMAIN sessions : \E l \in DOMAIN stdout : stdout[l] = sessions[k].Name

\* C8 witness: zoxide failed, and list printed the tmux, config and worktree
\* sessions.
C8_Witness ==
    /\ command = "list" /\ pc = "done" /\ result = "exit0"
    /\ ZoxideTool \in failed
    /\ tmuxSessions # <<>> /\ configSessions # <<>> /\ configWorktreeSessions # <<>>
    /\ Len(stdout) = Len(sessions)
    /\ Len(sessions) >= 3

\* The names of the sessions of ss.
Names(ss) == [k \in 1..Len(ss) |-> ss[k].Name]

\* C9 as stated: without a config file list exits 0 and prints the names of the
\* live tmux sessions and nothing else.
C9_PrintsOnlyTmuxNames ==
    (configFile = "absent" /\ command = "list" /\ pc = "done") =>
        /\ result = "exit0"
        /\ stdout = Names(tmuxSessions)

\* C9 as amended: without a config file list exits 0 and prints the notice
\* "No config file was found", then the names of the live tmux sessions, then
\* the normalized names of the zoxide directories that no earlier line names.
C9_PrintsNoticeTmuxAndZoxide ==
    (configFile = "absent" /\ command = "list" /\ pc = "done") =>
        /\ result = "exit0"
        /\ configSessions = <<>> /\ configWorktreeSessions = <<>>
        /\ {tmuxSessions[k].Name : k \in DOMAIN tmuxSessions} = tmuxLive
        /\ stdout = <<NoConfigNotice>>
                     \o Names(FirstOccurrences(
                            WithNormalizedNames(tmuxSessions \o zoxideSessions),
                            Len(tmuxSessions) + Len(zoxideSessions)))

\* C9 witness: no config file, live sessions and zoxide directories.
C9_Witness ==
    /\ configFile = "absent" /\ command = "list" /\ pc = "done"
    /\ Len(tmuxSessions) = 2
    /\ Len(zoxideSessions) = 2
    /\ Len(stdout) = 4

----------------------------------------------------------------------------
(* connect *)

\* connect has selected among the catalog's sessions for its argument.
Selected == command = "connect" /\ sessionName # EmptyStr

CreationsIssued == {k \in DOMAIN cmds : cmds[k].cmd \in CreationCmds}
AttachesIssued == {k \in DOMAIN cmds : cmds[k].cmd \in AttachCmds}

\* C4: when tmux holds a live session named n during the whole run of
\* connect(n), no creation command is issued and createTmuxSession is not
\* called; the one mutating command issued is a switch-client or an
\* attach-session against n.
C4_LiveTargetNeverCreated ==
    (Selected /\ sessionName \in liveThroughout) =>
        /\ CreationsIssued = {}
        /\ created = "none"
        /\ \A k \in DOMAIN cmds : cmds[k].cmd \in AttachCmds /\ cmds[k].name = sessionName
        /\ Len(cmds) <= 1
        /\ pc = "done" => Len(cmds) = 1

\* C4 witness: connect to a session that stayed live has ended with its one
\* command, while another process changed the server's sessions.
C4_Witness ==
    /\ Selected /\ sessionName \in liveThroughout
    /\ pc = "done"
    /\ envSteps > 0
    /\ Len(cmds) = 1 /\ cmds[1].name = sessionName
    /\ cmds[1].cmd = "attach-session"

\* C5: when no entry of the catalog is named n, connect(n) ends with the
\* "not found" error and exit status 1, and issues no session creation, no
\* switch-client and no attach-session.
C5_MissingNameNotFound ==
    (Selected /\ ~\E i \in DOMAIN sessions : sessions[i].Name = sessionName) =>
        /\ pc = "done"
        /\ result = "exit1"
        /\ stdout # <<>> /\ stdout[Len(stdout)] = ErrorLine("session not found")
        /\ cmds = <<>>
        /\ created = "none"

\* C5 witness: connect a.b with a catalog that holds a_b and not a.b.
C5_Witness ==
    /\ Selected
    /\ sessionName = NameADotB
    /\ \E i \in DOMAIN sessions : sessions[i].Name = NameA_B
    /\ result = "exit1"
    /\ cmds = <<>>

\* C6 as stated: creation is never attempted for a selected session without a
\* path, whatever other processes do to the tmux server during the run.
C6_NeverAttemptedWithoutPath ==
    created # "none" => selectedSession.Path # EmptyStr

\* C6 as amended: no creation command is ever issued for a selected session
\* without a path; createTmuxSession is called for one only when another
\* process destroyed its tmux session after the catalog was built, and then it
\* fails with the missing-path error before any command, and connect exits 1.
C6_NoCreationCommandWithoutPath ==
    /\ \A k \in CreationsIssued : cmds[k].path # EmptyStr /\ selectedSession.Path # EmptyStr
    /\ (created # "none" /\ selectedSession.Path = EmptyStr) =>
          /\ created = "nopath"
          /\ envSteps > 0
          /\ selectedSession.Name \notin liveThroughout
          /\ cmds = <<>>
          /\ pc = "done"
          /\ result = "exit1"
          /\ stdout[Len(stdout)] = CreateErrorLine("nopath")

\* C6 witness: the selected session came from tmux and was gone at the fresh
\* query, so that createTmuxSession was called for it and refused.
C6_Witness ==
    /\ created = "nopath"
    /\ selectedSession.Path = EmptyStr
    /\ ~sessionExists
    /\ cmds = <<>>

\* The order of the steps of a run.
StepOrder ==
    {<<"start", "gotSessions">>, <<"start", "done">>, <<"gotSessions", "resolved">>,
     <<"gotSessions", "done">>, <<"resolved", "checked">>, <<"checked", "ensured">>,
     <<"checked", "done">>, <<"ensured", "done">>}

CreationFailed ==
    created = "nopath" \/ \E k \in CreationsIssued : ~cmds[k].ok

C10_State ==
    /\ AttachesIssued # {} =>
          /\ pc = "done"
          /\ sessionExists \/ \E k \in CreationsIssued : cmds[k].ok
          /\ \A k \in AttachesIssued : k = Len(cmds)
    /\ CreationFailed =>
          /\ pc = "done"
          /\ result = "exit1"
          /\ AttachesIssued = {}
    /\ CreationsIssued # {} => ~sessionExists /\ pc \in {"ensured", "done"}

C10_Step ==
    /\ pc' # pc => <<pc, pc'>> \in StepOrder
    /\ sessionExists' # sessionExists => pc = "resolved"
    /\ cmds' # cmds =>
          \/ pc = "checked" /\ ~sessionExists /\ cmds'[Len(cmds')].cmd \in CreationCmds
          \/ pc = "ensured" /\ cmds'[Len(cmds')].cmd \in AttachCmds

\* C10: the steps of connect come in the order resolved, existence checked,
\* ensured, attached: a switch-client or attach-session is issued only after the
\* fresh existence query, and only if the query found the session or the
\* creation command succeeded; when creation fails, by its exit status or for the
\* missing path, connect exits 1 and issues no switch-client or attach-session.
C10_StepsInOrder == []C10_State /\ [][C10_Step]_vars

\* C10 witness: the session was absent, its creation succeeded, and the
\* switch-client followed.
C10_Witness ==
    /\ pc = "done"
    /\ ~sessionExists
    /\ Len(cmds) = 2
    /\ cmds[1].cmd = "tmuxinator start" /\ cmds[1].ok
    /\ cmds[2].cmd = "switch-client"

\* The session is ensured: the environment variable was read, and the fresh
\* query found the session or its creation succeeded.
Ensured ==
    /\ Selected
    /\ TMUX # NotRead
    /\ pc \in {"ensured", "done"}
    /\ sessionExists \/ \E k \in CreationsIssued : cmds[k].ok

C11_State ==
    /\ Cardinality(AttachesIssued) <= 1
    /\ Ensured => Cardinality(AttachesIssued) = IF pc = "done" THEN 1 ELSE 0
    /\ \A k \in AttachesIssued :
          /\ Ensured
          /\ cmds[k].name = selectedSession.Name
          /\ cmds[k].name = sessionName
          /\ \E i \in DOMAIN sessions : sessions[i] = selectedSession
          /\ cmds[k].cmd = "switch-client" <=> TMUX # ""
          /\ cmds[k].cmd = "attach-session" <=> TMUX = ""
          /\ cmds[k].cmd = "switch-client" =>
                result = IF cmds[k].ok THEN "exit0" ELSE "exit1"
          /\ cmds[k].cmd = "attach-session" =>
                result = IF cmds[k].ok THEN "replaced" ELSE "exit1"
    /\ result = "replaced" =>
          /\ pc = "done"
          /\ cmds # <<>> /\ cmds[Len(cmds)].cmd = "attach-session" /\ cmds[Len(cmds)].ok

\* No step of the program, and none the model gives other processes, starts
\* in a state where the process was replaced.
C11_Step == result # "replaced"

====
